---- MODULE Spec2Model ----
(***************************************************************************)
(* Cohorts (src/cohorts_pmf.py) and GrowthAccounting                       *)
(* (src/growth_accounting_pmf.py) of giraffe-startups, with the period     *)
(* calendar of src/aux.py.                                                 *)
(*                                                                         *)
(* A date is the integer YYYYMMDD, so that integer order is calendar       *)
(* order.  A table cell is a value record [k, n, d]: k = "num" is the      *)
(* rational n/d in lowest terms (d > 0), k = "nan" is the missing marker   *)
(* NaN and k = "inf" is an infinity of sign n.  Tables are sequences of    *)
(* rows in the row order of the data frame they model.  Cells hold exact   *)
(* values: the rounding of the floating-point operations is not modelled,  *)
(* and k = "root" \o r is the irrational (n/d)^(1/r) - 1.                   *)
(*                                                                         *)
(* Data frames behave as in the pandas 1.x the code was written for: a     *)
(* groupby(...).apply of a function that returns its group keeps the rows, *)
(* their order and their index; a column assigned from a Series is aligned *)
(* on the index and is NaN where the Series has no entry; an outer merge   *)
(* keeps the left rows in order and appends the rows found only on the     *)
(* right.                                                                  *)
(*                                                                         *)
(* An action binds a table it computes once, \E t \in {table} : ..., or    *)
(* reads it from the primed variable that holds it.                        *)
(***************************************************************************)
EXTENDS Integers, Sequences, FiniteSets, TLC

\* ------------------------------------------------------------------ bounds
MaxEntity == 2
MaxEvents == 2
MaxQty == 1
MaxHow == 1
MaxCalls == 3
MaxLookback == 2

\* ------------------------------------------------------------ value cells
NaN == [k |-> "nan", n |-> 0, d |-> 1]
Inf(s) == [k |-> "inf", n |-> s, d |-> 1]

Abs(x) == IF x < 0 THEN -x ELSE x
Sign(x) == IF x > 0 THEN 1 ELSE IF x < 0 THEN -1 ELSE 0

RECURSIVE GCD(_, _)
GCD(a, b) == IF b = 0 THEN a ELSE GCD(b, a % b)

\* the rational n/d (d # 0) in lowest terms
Frac(n, d) ==
  LET g == GCD(Abs(n), Abs(d))
      s == IF d < 0 THEN -1 ELSE 1
  IN  [k |-> "num", n |-> (s * n) \div g, d |-> (s * d) \div g]

Num(i) == [k |-> "num", n |-> i, d |-> 1]

IsNaN(v) == v.k = "nan"
IsInf(v) == v.k = "inf"
IsNum(v) == v.k = "num"

\* float division a / b of two cells
Div(a, b) ==
  IF IsNaN(a) \/ IsNaN(b) THEN NaN
  ELSE IF IsInf(a) THEN (IF IsInf(b) THEN NaN
                         ELSE Inf(a.n * (IF b.n < 0 THEN -1 ELSE 1)))
  ELSE IF IsInf(b) THEN Num(0)
  ELSE IF b.n = 0 THEN (IF a.n = 0 THEN NaN ELSE Inf(Sign(a.n)))
  ELSE Frac(a.n * b.d, a.d * b.n)

\* float addition a + b
Add(a, b) ==
  IF IsNaN(a) \/ IsNaN(b) THEN NaN
  ELSE IF IsInf(a) THEN (IF IsInf(b) /\ b.n # a.n THEN NaN ELSE a)
  ELSE IF IsInf(b) THEN b
  ELSE Frac(a.n * b.d + b.n * a.d, a.d * b.d)

Neg(a) == IF IsNaN(a) THEN NaN ELSE [a EXCEPT !.n = -a.n]

Sub(a, b) == Add(a, Neg(b))

\* x > 0, x < 0 on cells (any comparison with NaN is false)
Positive(v) == ~IsNaN(v) /\ v.n > 0
Negative(v) == ~IsNaN(v) /\ v.n < 0

\* Series.fillna(0)
FillNa0(v) == IF IsNaN(v) THEN Num(0) ELSE v

\* variant: the infinities stay
ReplaceInf_keep(v) == IF IsNaN(v) THEN NaN ELSE v

\* replace(np.inf, np.nan).replace(-np.inf, np.nan)
ReplaceInf(v) == IF IsInf(v) THEN NaN ELSE v

\* b ** e of naturals
RECURSIVE Pow(_, _)
Pow(b, e) == IF e = 0 THEN 1 ELSE b * Pow(b, e - 1)

\* the natural whose r-th power is a, or -1 when a is not an r-th power
IntRoot(a, r) ==
  IF \E k \in 0..a : Pow(k, r) = a THEN CHOOSE k \in 0..a : Pow(k, r) = a ELSE -1

\* lambda x: x**(1/r) - 1 on a cell, r >= 1; a negative base has a complex power
CompoundRate(x, r) ==
  IF IsNaN(x) THEN NaN
  ELSE IF r = 1 THEN Sub(x, Num(1))
  ELSE IF IsInf(x) THEN Inf(1)
  ELSE IF x.n < 0 THEN [k |-> "complex", n |-> x.n, d |-> x.d]
  ELSE IF IntRoot(x.n, r) >= 0 /\ IntRoot(x.d, r) >= 0
       THEN Frac(IntRoot(x.n, r) - IntRoot(x.d, r), IntRoot(x.d, r))
  ELSE [k |-> "root" \o ToString(r), n |-> x.n, d |-> x.d]

\* ------------------------------------------------------------ sequences
RECURSIVE SortedSeq(_)
SortedSeq(S) ==
  IF S = {} THEN <<>>
  ELSE LET m == CHOOSE x \in S : \A y \in S : x <= y
       IN  <<m>> \o SortedSeq(S \ {m})

RECURSIVE Flatten(_)
Flatten(ss) == IF ss = <<>> THEN <<>> ELSE Head(ss) \o Flatten(Tail(ss))

Range(s) == {s[i] : i \in 1..Len(s)}

\* the rows of a table as an explicit sequence
Table(rows) == SubSeq(rows, 1, Len(rows))

\* Series.unique(): the distinct values in order of first appearance
RECURSIVE Unique(_)
Unique(s) ==
  IF s = <<>> THEN <<>>
  ELSE LET r == Unique(SubSeq(s, 1, Len(s) - 1))
           x == s[Len(s)]
       IN  IF x \in Range(r) THEN r ELSE Append(r, x)

\* ------------------------------------------------------- period calendar
Year(date) == date \div 10000
Month(date) == (date \div 100) % 100
Day(date) == date % 100
MkDate(y, m, d) == y * 10000 + m * 100 + d

IsLeap(y) == y % 4 = 0 /\ (y % 100 # 0 \/ y % 400 = 0)
DaysInMonth(y, m) ==
  IF m = 2 THEN (IF IsLeap(y) THEN 29 ELSE 28)
  ELSE IF m \in {4, 6, 9, 11} THEN 30 ELSE 31

RECURSIVE DaysBeforeMonth(_, _)
DaysBeforeMonth(y, m) ==
  IF m = 1 THEN 0 ELSE DaysBeforeMonth(y, m - 1) + DaysInMonth(y, m - 1)

DaysBeforeYear(y) ==
  (y - 1) * 365 + (y - 1) \div 4 - (y - 1) \div 100 + (y - 1) \div 400

\* date.toordinal()
Ordinal(date) ==
  DaysBeforeYear(Year(date)) + DaysBeforeMonth(Year(date), Month(date)) + Day(date)

\* date.fromordinal(), for an ordinal of year y or y - 1 or y + 1
FromOrdinal(o, y) ==
  LET yy == CHOOSE c \in {y - 1, y, y + 1} :
              DaysBeforeYear(c) < o /\ o <= DaysBeforeYear(c + 1)
      n  == o - DaysBeforeYear(yy)
      mm == CHOOSE m \in 1..12 :
              DaysBeforeMonth(yy, m) < n /\ n <= DaysBeforeMonth(yy, m) + DaysInMonth(yy, m)
  IN  MkDate(yy, mm, n - DaysBeforeMonth(yy, mm))

\* ordinal of the Monday of ISO week 1 of an ISO year
IsoWeek1Monday(y) ==
  LET firstday == DaysBeforeYear(y) + 1
      firstweekday == (firstday + 6) % 7
      monday == firstday - firstweekday
  IN  IF firstweekday > 3 THEN monday + 7 ELSE monday

\* dt.date.isocalendar(date): <<ISO year, ISO week, ISO weekday>>
IsoCalendar(date) ==
  LET y == Year(date)
      today == Ordinal(date)
      off == today - IsoWeek1Monday(y)
  IN  IF off < 0
      THEN LET o2 == today - IsoWeek1Monday(y - 1)
           IN  <<y - 1, (o2 \div 7) + 1, (o2 % 7) + 1>>
      ELSE IF off \div 7 >= 52 /\ today >= IsoWeek1Monday(y + 1)
      THEN <<y + 1, 1, (off % 7) + 1>>
      ELSE <<y, (off \div 7) + 1, (off % 7) + 1>>

\* dt.datetime.strptime('G V 1', '%G %V %u').date(): Monday of an ISO week
IsoMonday(isoYear, isoWeek) ==
  FromOrdinal(IsoWeek1Monday(isoYear) + (isoWeek - 1) * 7, isoYear)

\* variant: the fourth week of the group, the first group for weeks 1 to 3
week_28d_quad(w) == (IF w \div 4 # 0 THEN w \div 4 ELSE 1) * 4

\* iso[1]//4*4 if iso[1]//4!=0 else 1: the ISO week of the representative
week_28d(w) == IF w \div 4 # 0 THEN (w \div 4) * 4 ELSE 1

\* variant: the day before the date, except for the daily granularity
custom_representative_eve(tipo, date) ==
  IF tipo = "d" THEN date ELSE FromOrdinal(Ordinal(date) - 1, Year(date))

custom_representative(tipo, date) ==
  CASE tipo = "7d" ->
         LET iso == IsoCalendar(date) IN IsoMonday(iso[1], iso[2])
    [] tipo = "28d" ->
         LET iso == IsoCalendar(date)
         IN  IsoMonday(iso[1], week_28d(iso[2]))
    [] tipo = "m" -> MkDate(Year(date), Month(date), 1)
    [] tipo = "d" -> date
    [] tipo = "q" ->
         MkDate(Year(date),
                IF Month(date) \div 3 # 0 THEN (Month(date) \div 3) * 3 ELSE 1, 1)

period_7d(date) == LET x == IsoCalendar(date) IN <<"7d", x[1], x[2]>>
period_28d(date) == LET x == IsoCalendar(date) IN <<"28d", x[1], (x[2] \div 4) + 1>>
period_q(date) ==
  <<"q", Year(date),
    IF Month(date) < 4 THEN 1 ELSE IF Month(date) < 7 THEN 2
    ELSE IF Month(date) < 10 THEN 3 ELSE 4>>
period_d(date) == <<"d", Year(date), Month(date), Day(date)>>
period_m(date) == <<"m", Year(date), Month(date)>>

\* the label of a date: the fields its formatted string is made of
custom_period(tipo, date) ==
  CASE tipo = "7d" -> period_7d(date)
    [] tipo = "28d" -> period_28d(date)
    [] tipo = "m" -> period_m(date)
    [] tipo = "d" -> period_d(date)
    [] tipo = "q" -> period_q(date)

\* ------------------------------------------------------------ input data
Entities == 1..MaxEntity
Dates == {20200120, 20200205, 20200310}
Quantities == 0..MaxQty
Granularities == {"m", "q", "d", "28d", "7d"}

RECURSIVE SubsetsUpTo(_, _)
SubsetsUpTo(S, k) ==
  IF k = 0 THEN {{}}
  ELSE LET prev == SubsetsUpTo(S, k - 1)
       IN  prev \cup {s \cup {e} : s \in prev, e \in S}

\* entity 1 active in the three months, entity 2 in the last two, entity 3
\* in the first only
Scenario ==
  {[id |-> 1, date |-> 20200120, qty |-> 1], [id |-> 1, date |-> 20200205, qty |-> 1],
   [id |-> 1, date |-> 20200310, qty |-> 1], [id |-> 2, date |-> 20200205, qty |-> 1],
   [id |-> 2, date |-> 20200310, qty |-> 1], [id |-> 3, date |-> 20200120, qty |-> 1]}

\* entity ids are opaque: they are numbered 1, 2, ... in the order in which the
\* entities first appear
FirstDate(d, e) == CHOOSE x \in {r.date : r \in {q \in d : q.id = e}} :
                     \A r \in d : r.id = e => x <= r.date
Canonical(d) ==
  LET ids == {r.id : r \in d}
  IN  /\ ids = 1..Cardinality(ids)
      /\ \A i, j \in ids : i < j => FirstDate(d, i) <= FirstDate(d, j)

\* the non-empty event tables of at most k rows over entities E and quantities Q
DatasetsOf(E, k, Q) ==
  {d \in SubsetsUpTo([id : E, date : Dates, qty : Q], k) \ {{}} : Canonical(d)}

\* the tables with exactly one event, of quantity 1, on every date
Spread(E) ==
  {d \in SubsetsUpTo([id : E, date : Dates, qty : {1}], Cardinality(Dates)) :
     /\ \A dt \in Dates : Cardinality({r \in d : r.date = dt}) = 1
     /\ Canonical(d)}

CohortDatasets == DatasetsOf(Entities, MaxEvents, Quantities) \cup Spread(Entities)

\* three entities whose monthly totals are 100, 110 and 121
Compounding ==
  {[id |-> 1, date |-> 20200120, qty |-> 100], [id |-> 1, date |-> 20200205, qty |-> 100],
   [id |-> 1, date |-> 20200310, qty |-> 100], [id |-> 2, date |-> 20200205, qty |-> 10],
   [id |-> 2, date |-> 20200310, qty |-> 10], [id |-> 3, date |-> 20200310, qty |-> 11]}

\* three entities that start one after the other and stay: totals 1, 2 and 3
Staggered ==
  {[id |-> 1, date |-> 20200120, qty |-> 1], [id |-> 1, date |-> 20200205, qty |-> 1],
   [id |-> 1, date |-> 20200310, qty |-> 1], [id |-> 2, date |-> 20200205, qty |-> 1],
   [id |-> 2, date |-> 20200310, qty |-> 1], [id |-> 3, date |-> 20200310, qty |-> 1]}

\* five entities over three periods, the last of which has an entity of every
\* class: entity 1 comes back after a period without events, entity 2 grows,
\* entity 3 shrinks, entity 4 leaves and entity 5 starts
Returning ==
  {[id |-> 1, date |-> 20200120, qty |-> 1], [id |-> 1, date |-> 20200310, qty |-> 2],
   [id |-> 2, date |-> 20200205, qty |-> 1], [id |-> 2, date |-> 20200310, qty |-> 2],
   [id |-> 3, date |-> 20200205, qty |-> 2], [id |-> 3, date |-> 20200310, qty |-> 1],
   [id |-> 4, date |-> 20200205, qty |-> 1], [id |-> 5, date |-> 20200310, qty |-> 1]}

\* the quantities of the growth tables: zero, and two positive values, so that
\* a total can be zero and a quantity can grow from a positive one
GrowthQuantities == 0..(MaxQty + 1)

GrowthDatasets ==
  DatasetsOf(Entities, MaxEvents + 1, GrowthQuantities)
    \cup {Scenario, Compounding, Staggered, Returning}

VARIABLES
  engine,            \* the class of the instance: "Cohorts" or "GrowthAccounting"
  data,              \* the caller's event table
  period,            \* self.period of both engines
  simple,            \* self.simple of both engines
  df_period_cohort,  \* Cohorts: normalized event table ({} = attribute not set)
  df_cohorts,        \* Cohorts: the grid (<<>> = attribute not set)
  period_list,       \* Cohorts: labels of the periods of the grid
  cohort_list,       \* Cohorts: labels of the cohorts of the grid
  arguments,         \* Cohorts: self.arguments
  column_id,         \* Cohorts: self.column_id, self.column_date ("unset" or "set")
  c_exc,             \* Cohorts: exception raised by the last call ("none" if it returned)
  c_calls,           \* Cohorts: number of calls made on the instance
  c_last,            \* Cohorts: the last call made on the instance
  df_prepared,       \* GrowthAccounting.fit: the local df, the normalized event table
  df_users,          \* GrowthAccounting.fit: the local df_users, one row per entity
                     \* and period from the entity's cohort on
  df_revenue,        \* GrowthAccounting.fit: the local df_revenue, on the same rows
  quantities,        \* GrowthAccounting.fit: the local dfgrowth after line 227
  dfgrowth,          \* GrowthAccounting.fit: the local dfgrowth after line 244
  self_df,           \* GrowthAccounting: self.df (<<>> = attribute not set)
  flat,              \* GrowthAccounting: the flat sequences self.total, self.new, ...
  g_exc,             \* GrowthAccounting: exception raised by the last call
  c_ret,             \* Cohorts: the value the last call returned
  g_calls,           \* GrowthAccounting: number of calls made on the instance
  g_last,            \* GrowthAccounting: the last call made on the instance
  g_ret,             \* GrowthAccounting: the value the last call returned
  cal                \* period calendar: a call of custom_representative and
                     \* custom_period and what it returned

cvars == <<df_period_cohort, df_cohorts, period_list, cohort_list, arguments,
           column_id, c_exc, c_calls, c_last, c_ret>>
gvars == <<df_prepared, df_users, df_revenue, quantities, dfgrowth, self_df, flat, g_exc,
           g_calls, g_last, g_ret>>
vars == <<engine, data, period, simple, cvars, gvars, cal>>

\* ------------------------------------------------------ event normalizer
SumInput(S) ==
  LET RECURSIVE Go(_)
      Go(T) == IF T = {} THEN 0
               ELSE LET x == CHOOSE y \in T : TRUE IN x.input + Go(T \ {x})
  IN  Go(S)

MinOf(S) == CHOOSE x \in S : \A y \in S : x <= y

\* variant: the last period of the entity instead of the first
CohortMin_last(rows, e) ==
  LET S == {r.period : r \in {q \in rows : q.id = e}}
  IN  CHOOSE x \in S : \A y \in S : x >= y

\* df.groupby(level=0)[col].min() joined back on the entity id
CohortMin(rows, e) == MinOf({r.period : r \in {q \in rows : q.id = e}})

\* fit, lines 403-414 (Cohorts) and 173-184 (GrowthAccounting): the copy of the
\* data with the input quantity, the period and the cohort of every row
Normalize(d, tipo, isSimple) ==
  LET withPeriod ==
        {[id |-> e.id, date |-> e.date, qty |-> e.qty,
          input |-> IF isSimple THEN 1 ELSE e.qty,
          period |-> custom_representative(tipo, e.date)] : e \in d}
  IN  {[id |-> r.id, date |-> r.date, qty |-> r.qty, input |-> r.input,
        period |-> r.period, cohort |-> CohortMin(withPeriod, r.id)] : r \in withPeriod}

\* ------------------------------------------------------ cohort aggregator
NoCols == <<>>

\* groupby(['cohort','period']).count().unstack().fillna(0).stack().reset_index():
\* every cohort crossed with every period, in (cohort, period) order
CrossGrid(dfpc) ==
  LET cs == SortedSeq({r.cohort : r \in dfpc})
      ps == SortedSeq({r.period : r \in dfpc})
  IN  Flatten([i \in 1..Len(cs) |->
        [j \in 1..Len(ps) |->
          [cohort |-> cs[i], period |-> ps[j],
           centinela |-> Cardinality({r \in dfpc : r.cohort = cs[i] /\ r.period = ps[j]})]]])

\* variant: no cell is discarded
ValidCell_all(row) == row.cohort <= row.period \/ row.cohort > row.period

\* cohorts[cohorts['cohort']<=cohorts['period']]
ValidCell(row) == row.cohort <= row.period

\* variant: the positions are counted from 1
nums_from_one(rows, i) == Cardinality({j \in 1..i : rows[j].cohort = rows[i].cohort})

\* nums under groupby('cohort'): position of the row inside its cohort
nums(rows, i) == Cardinality({j \in 1..(i - 1) : rows[j].cohort = rows[i].cohort})

BaseGrid(dfpc) ==
  LET kept == SelectSeq(CrossGrid(dfpc), ValidCell)
  IN  Table([i \in 1..Len(kept) |->
        [cohort |-> kept[i].cohort, period |-> kept[i].period,
         period_num |-> Num(nums(kept, i)), cols |-> NoCols]])

\* -------------------------------------------------- cohort metrics engine
Columns(df) == IF df = <<>> THEN {} ELSE DOMAIN df[1].cols

\* df[name] = values, values[i] the cell of row i
SetColumn(df, name, values) ==
  Table([i \in 1..Len(df) |-> [df[i] EXCEPT !.cols = (name :> values[i]) @@ df[i].cols]])

\* data[column].iloc[0] of the cohort group of row i
First(df, i, column) ==
  LET j == CHOOSE a \in 1..Len(df) :
             /\ df[a].cohort = df[i].cohort
             /\ \A b \in 1..(a - 1) : df[b].cohort # df[i].cohort
  IN  df[j].cols[column]

\* variant: every column is divided by its own first value
perc_own(df, name, column, column2) ==
  SetColumn(df, name, [i \in 1..Len(df) |-> Div(df[i].cols[column], First(df, i, column))])

perc(df, name, column, column2) ==
  SetColumn(df, name, [i \in 1..Len(df) |-> Div(df[i].cols[column], First(df, i, column2))])

churn(df, name, column) ==
  SetColumn(df, name, [i \in 1..Len(df) |-> Sub(First(df, i, column), df[i].cols[column])])

\* Series.cumsum() inside the cohort group: NaN cells stay NaN and are skipped
CumSum(df, i, column) ==
  LET RECURSIVE Go(_)
      Go(j) == IF j = 0 THEN Num(0)
               ELSE IF df[j].cohort = df[i].cohort /\ ~IsNaN(df[j].cols[column])
               THEN Add(Go(j - 1), df[j].cols[column])
               ELSE Go(j - 1)
  IN  IF IsNaN(df[i].cols[column]) THEN NaN ELSE Go(i)

accum(df, name, column) ==
  SetColumn(df, name, [i \in 1..Len(df) |-> CumSum(df, i, column)])

Cell(dfpc, row) == {r \in dfpc : r.cohort = row.cohort /\ r.period = row.period}

\* df.groupby(['cohort','period'])[column_input].sum(), aligned on the grid index
GroupSum(dfpc, row) ==
  IF Cell(dfpc, row) = {} THEN NaN ELSE Num(SumInput(Cell(dfpc, row)))

\* df.groupby(['cohort','period'])[column_id].nunique(), aligned on the grid index
GroupNunique(dfpc, row) ==
  IF Cell(dfpc, row) = {} THEN NaN
  ELSE Num(Cardinality({r.id : r \in Cell(dfpc, row)}))

Ok(df) == [exc |-> "none", df |-> df]
Raise(e, df) == [exc |-> e, df |-> df]

ApplyTotal(dfpc, df) ==
  Ok(perc(SetColumn(df, "total", [i \in 1..Len(df) |-> GroupSum(dfpc, df[i])]),
          "perc_total", "total", "total"))

ApplyUniqueUsers(dfpc, df) ==
  Ok(perc(SetColumn(df, "unique_users", [i \in 1..Len(df) |-> GroupNunique(dfpc, df[i])]),
          "perc_unique_users", "unique_users", "unique_users"))

ApplyChurnTotal(dfpc, df) ==
  LET base == IF "total" \notin Columns(df) THEN ApplyTotal(dfpc, df).df ELSE df
  IN  Ok(perc(churn(base, "churn_total", "total"),
              "perc_churn_total", "churn_total", "total"))

\* line 239 calls self.apply_unique, which Cohorts does not define
ApplyChurnUniqueUsers(dfpc, df) ==
  IF "unique_users" \notin Columns(df) THEN Raise("AttributeError", df)
  ELSE Ok(perc(churn(df, "churn_unique", "unique_users"),
               "perc_churn_unique", "churn_unique", "unique_users"))

ApplyAccum(dfpc, df) ==
  LET base == IF "total" \notin Columns(df) THEN ApplyTotal(dfpc, df).df ELSE df
  IN  Ok(perc(accum(base, "accum", "total"), "perc_accum", "accum", "total"))

ApplyPerUser(dfpc, df) ==
  LET withTotal == IF "total" \notin Columns(df) THEN ApplyTotal(dfpc, df).df ELSE df
      base == IF "unique_users" \notin Columns(withTotal)
              THEN ApplyUniqueUsers(dfpc, withTotal).df ELSE withTotal
  IN  Ok(perc(SetColumn(base, "per_user",
                [i \in 1..Len(base) |-> Div(base[i].cols["total"], base[i].cols["unique_users"])]),
              "perc_per_user", "per_user", "per_user"))

\* the table a caller passes to apply_personalized: rows of cohort, period, value
\* with distinct (cohort, period) keys.  Orders is the number of events of every
\* cell that has events; the second table adds a row of a period before the cohort.
Labels == {"orders"}
PercName(label) == "perc_" \o label

Orders(dfpc) ==
  LET hit(row) == row.centinela > 0
      cells == SelectSeq(CrossGrid(dfpc), hit)
  IN  [i \in 1..Len(cells) |->
        [cohort |-> cells[i].cohort, period |-> cells[i].period,
         value |-> Num(cells[i].centinela)]]

TableKinds == {"cells", "foreign"}

SuppliedTable(kind, dfpc) ==
  IF kind = "cells" THEN Orders(dfpc)
  ELSE Append(Orders(dfpc),
              [cohort |-> MinOf({r.cohort : r \in dfpc}), period |-> 20191201,
               value |-> Num(1)])

\* pd.merge(self.df_cohorts, table[['cohort','period',label]], on=['cohort','period'],
\* how='outer'): the grid rows in order with the value of their key (NaN without a
\* match), then the rows of the table whose key is not in the grid
MergeOuter(df, table, label) ==
  LET match(i) == {t \in 1..Len(table) :
                     table[t].cohort = df[i].cohort /\ table[t].period = df[i].period}
      left == [i \in 1..Len(df) |->
                [df[i] EXCEPT !.cols =
                   (label :> (IF match(i) = {} THEN NaN
                              ELSE table[CHOOSE t \in match(i) : TRUE].value))
                   @@ df[i].cols]]
      foreign(t) == \A i \in 1..Len(df) : ~(t.cohort = df[i].cohort /\ t.period = df[i].period)
      extra == SelectSeq(table, foreign)
      right == [t \in 1..Len(extra) |->
                 [cohort |-> extra[t].cohort, period |-> extra[t].period,
                  period_num |-> NaN,
                  cols |-> (label :> extra[t].value) @@ [c \in Columns(df) |-> NaN]]]
  IN  Table(left \o right)

\* a label the grid already has comes out of the merge as label_x and label_y, and
\* perc then fails on data[label]
ApplyPersonalized(df, table, label) ==
  IF label \in Columns(df) THEN Raise("KeyError", df)
  ELSE Ok(perc(MergeOuter(df, table, label), PercName(label), label, label))

HowNames == {"total", "churn_total", "accum", "unique_users", "churn_unique_users",
             "per_user", "retention"}

HowLists == UNION {[1..n -> HowNames] : n \in 0..MaxHow}

\* dic[item](...) of fit
ApplyItem(item, dfpc, df) ==
  CASE item = "total" -> ApplyTotal(dfpc, df)
    [] item = "churn_total" -> ApplyChurnTotal(dfpc, df)
    [] item = "accum" -> ApplyAccum(dfpc, df)
    [] item = "unique_users" -> ApplyUniqueUsers(dfpc, df)
    [] item = "churn_unique_users" -> ApplyChurnUniqueUsers(dfpc, df)
    [] item = "per_user" -> ApplyPerUser(dfpc, df)
    [] OTHER -> Raise("ValueError", df)

\* for item in how: the loop stops at the first call that raises
RECURSIVE RunHow(_, _, _)
RunHow(how, dfpc, df) ==
  IF how = <<>> THEN Ok(df)
  ELSE LET r == ApplyItem(Head(how), dfpc, df)
       IN  IF r.exc # "none" THEN r ELSE RunHow(Tail(how), dfpc, r.df)

HasGrid == df_cohorts # <<>>

\* list(cohorts[column].apply(lambda x: custom_period(self.period,x)).unique())
PeriodLabels(tipo, cohorts, column) ==
  Unique([i \in 1..Len(cohorts) |-> custom_period(tipo, cohorts[i][column])])

\* the call the caller made last: the operation and, for apply_personalized, the
\* table and the label it was given
Call(op, kind, label) == [op |-> op, kind |-> kind, label |-> label]
NoCall == Call("none", "", "")

\* the value a call returns: None, or a table, an array or a tuple of arrays
None == [type |-> "None"]

\* the column_input argument of fit as the call records it
InputArg(hasInput) == IF hasInput THEN "column_input" ELSE "None"

\* variant: the quantity column is never asked for
MissingInput_never(isSimple, hasInput) == isSimple /\ ~isSimple

\* if not self.simple and not column_input
MissingInput(isSimple, hasInput) == ~isSimple /\ ~hasInput

\* no call of the period calendar made yet
NoDate == [tipo |-> "", date |-> 0, representative |-> 0, period |-> <<>>, again |-> 0]

\* the state after construction, for a caller holding one of the tables D; the
\* table of an unweighted (simple) engine has no quantities: every row counts 1
InitWith(class, D) ==
  /\ engine = class
  /\ data \in D
  /\ period \in Granularities
  /\ simple \in BOOLEAN
  /\ simple => \A e \in data : e.qty = 1
  /\ df_period_cohort = {}
  /\ df_cohorts = <<>>
  /\ period_list = <<>>
  /\ cohort_list = <<>>
  /\ arguments = {}
  /\ column_id = "unset"
  /\ c_exc = "none"
  /\ c_calls = 0
  /\ c_last = NoCall
  /\ df_prepared = {}
  /\ df_users = <<>>
  /\ df_revenue = <<>>
  /\ quantities = <<>>
  /\ dfgrowth = <<>>
  /\ self_df = <<>>
  /\ flat = <<>>
  /\ g_exc = "none"
  /\ c_ret = None
  /\ g_calls = 0
  /\ g_last = NoCall
  /\ g_ret = None
  /\ cal = NoDate

\* Cohorts.fit(data, column_date, column_id, column_input, how); hasInput says
\* whether column_input is given
Cohorts_fit(hasInput, how) ==
  /\ engine = "Cohorts"
  /\ c_calls < MaxCalls
  /\ c_calls' = c_calls + 1
  /\ c_last' = Call("fit", InputArg(hasInput), "")
  /\ c_ret' = None
  /\ UNCHANGED <<engine, data, period, simple, gvars, cal>>
  /\ IF MissingInput(simple, hasInput)
     THEN /\ c_exc' = "ValueError"
          /\ UNCHANGED <<df_period_cohort, df_cohorts, period_list, cohort_list,
                         arguments, column_id>>
     ELSE /\ df_period_cohort' = Normalize(data, period, simple)
          /\ \E cohorts \in {BaseGrid(df_period_cohort')} :
               /\ period_list' = PeriodLabels(period, cohorts, "period")
               /\ cohort_list' = PeriodLabels(period, cohorts, "cohort")
               /\ \E r \in {RunHow(how, df_period_cohort', cohorts)} :
                    /\ df_cohorts' = r.df
                    /\ c_exc' = r.exc
          /\ IF c_exc' = "none"
             THEN arguments' = Range(how) \cup arguments /\ column_id' = "set"
             ELSE UNCHANGED <<arguments, column_id>>

\* a metric call: self.df_cohorts is read first, and the grid is replaced only
\* when the call returns
MetricCall(op, r) ==
  /\ engine = "Cohorts"
  /\ c_calls < MaxCalls
  /\ c_calls' = c_calls + 1
  /\ c_last' = op
  /\ c_ret' = None
  /\ UNCHANGED <<engine, data, period, simple, gvars, cal, df_period_cohort, period_list,
                 cohort_list, column_id>>
  /\ IF ~HasGrid
     THEN c_exc' = "AttributeError" /\ UNCHANGED df_cohorts
     ELSE c_exc' = r.exc /\ df_cohorts' = r.df

apply_total ==
  MetricCall(Call("apply_total", "", ""), ApplyTotal(df_period_cohort, df_cohorts))
  /\ UNCHANGED arguments

apply_unique_users ==
  MetricCall(Call("apply_unique_users", "", ""), ApplyUniqueUsers(df_period_cohort, df_cohorts))
  /\ UNCHANGED arguments

apply_churn_total ==
  MetricCall(Call("apply_churn_total", "", ""), ApplyChurnTotal(df_period_cohort, df_cohorts))
  /\ UNCHANGED arguments

apply_churn_unique_users ==
  MetricCall(Call("apply_churn_unique_users", "", ""), ApplyChurnUniqueUsers(df_period_cohort, df_cohorts))
  /\ UNCHANGED arguments

apply_accum ==
  MetricCall(Call("apply_accum", "", ""), ApplyAccum(df_period_cohort, df_cohorts))
  /\ UNCHANGED arguments

apply_per_user ==
  MetricCall(Call("apply_per_user", "", ""), ApplyPerUser(df_period_cohort, df_cohorts))
  /\ UNCHANGED arguments

apply_personalized(kind, label) ==
  LET r == ApplyPersonalized(df_cohorts, SuppliedTable(kind, df_period_cohort), label)
  IN  /\ MetricCall(Call("apply_personalized", kind, label), r)
      /\ arguments' = IF HasGrid /\ r.exc = "none" THEN arguments \cup {label}
                      ELSE arguments

\* the value of the column `way` of a grid row, as a cell
WayCell(row, way) == IF way = "period" THEN Num(row.period) ELSE row.period_num

\* the distinct labels of a level in the order unstack gives them: ascending,
\* the missing label in front
CellsSorted(S) ==
  LET ns == SortedSeq({v.n : v \in {x \in S : IsNum(x)}})
  IN  (IF NaN \in S THEN <<NaN>> ELSE <<>>) \o [i \in 1..Len(ns) |-> Num(ns[i])]

\* set_index(['cohort',way])[[label]].unstack(): one row per cohort, one column
\* per value of `way`, NaN where the grid has no row for the pair
Unstack(df, label, way) ==
  LET cs == SortedSeq({df[i].cohort : i \in 1..Len(df)})
      ws == CellsSorted({WayCell(df[i], way) : i \in 1..Len(df)})
      at(c, w) == {i \in 1..Len(df) : df[i].cohort = c /\ WayCell(df[i], way) = w}
  IN  [index |-> cs, columns |-> ws,
       values |-> Table([i \in 1..Len(cs) |-> Table([j \in 1..Len(ws) |->
                    IF at(cs[i], ws[j]) = {} THEN NaN
                    ELSE df[CHOOSE k \in at(cs[i], ws[j]) : TRUE].cols[label]])])]

\* unstack refuses an index with the same (cohort, way) pair on two rows
Duplicated(df, way) ==
  \E i, j \in 1..Len(df) :
    i < j /\ df[i].cohort = df[j].cohort /\ WayCell(df[i], way) = WayCell(df[j], way)

TransformPd(df, label, way) ==
  IF label \notin Columns(df) THEN [exc |-> "KeyError", ret |-> None]
  ELSE IF Duplicated(df, way) THEN [exc |-> "ValueError", ret |-> None]
  ELSE LET u == Unstack(df, label, way)
       IN  [exc |-> "none",
            ret |-> [type |-> "DataFrame", index |-> u.index, columns |-> u.columns,
                     values |-> u.values]]

TransformNp(df, label, way) ==
  IF label \notin Columns(df) THEN [exc |-> "KeyError", ret |-> None]
  ELSE IF Duplicated(df, way) THEN [exc |-> "ValueError", ret |-> None]
  ELSE [exc |-> "none",
        ret |-> [type |-> "tuple",
                 list_periods |-> Unique([i \in 1..Len(df) |-> WayCell(df[i], way)]),
                 list_cohorts |-> Unique([i \in 1..Len(df) |-> df[i].cohort]),
                 numpy_cohorts |-> Unstack(df, label, way).values]]

\* the labels and the ways a caller asks a matrix for
TransformLabels == {"total"}
Ways == {"period", "period_num"}

\* a transform call: it reads self.df_cohorts and changes no attribute
TransformCall(op, r) ==
  /\ engine = "Cohorts"
  /\ c_calls < MaxCalls
  /\ c_calls' = c_calls + 1
  /\ c_last' = op
  /\ UNCHANGED <<engine, data, period, simple, gvars, cal, df_period_cohort, df_cohorts,
                 period_list, cohort_list, arguments, column_id>>
  /\ IF ~HasGrid
     THEN c_exc' = "AttributeError" /\ c_ret' = None
     ELSE c_exc' = r.exc /\ c_ret' = r.ret

transform_pd(label, way) ==
  TransformCall(Call("transform_pd", way, label), TransformPd(df_cohorts, label, way))

transform_np(label, way) ==
  TransformCall(Call("transform_np", way, label), TransformNp(df_cohorts, label, way))

\* plot_heatmap, lines 520-525, the preparation of the data: the unique-users
\* columns are added when the grid has none (with self.column_id, which a fit
\* sets when it returns), then the matrix of the label is built as transform_pd
\* builds it.  Line 565, the tick labels of way 'period_num': a grid with a
\* missing period_num holds the column as floats, and range() refuses the float
\* max()+1.  A raise after line 521 leaves the grid with the new columns.
PlotHeatmap(dfpc, df, colid, label, way) ==
  IF "unique_users" \notin Columns(df) /\ colid # "set" THEN Raise("AttributeError", df)
  ELSE LET r == IF "unique_users" \notin Columns(df) THEN ApplyUniqueUsers(dfpc, df)
                ELSE Ok(df)
       IN  IF r.exc # "none" THEN r
           ELSE IF label \notin Columns(r.df) THEN Raise("KeyError", r.df)
           ELSE IF Duplicated(r.df, way) THEN Raise("ValueError", r.df)
           ELSE IF way = "period_num"
                   /\ \E i \in 1..Len(r.df) : IsNaN(r.df[i].period_num)
                THEN Raise("TypeError", r.df)
           ELSE Ok(r.df)

\* Cohorts.plot_heatmap(label, title, way): the figure it draws is no attribute
\* of the instance; the call returns nothing
plot_heatmap(label, way) ==
  /\ MetricCall(Call("plot_heatmap", way, label),
                PlotHeatmap(df_period_cohort, df_cohorts, column_id, label, way))
  /\ UNCHANGED arguments

NextCohorts ==
  \/ \E hasInput \in BOOLEAN, how \in HowLists : Cohorts_fit(hasInput, how)
  \/ apply_total
  \/ apply_unique_users
  \/ apply_churn_total
  \/ apply_churn_unique_users
  \/ apply_accum
  \/ apply_per_user
  \/ \E kind \in TableKinds, label \in Labels : apply_personalized(kind, label)
  \/ \E label \in TransformLabels, way \in Ways : transform_pd(label, way)
  \/ \E label \in TransformLabels, way \in Ways : transform_np(label, way)
  \/ \E label \in TransformLabels, way \in Ways : plot_heatmap(label, way)

InitCohorts == InitWith("Cohorts", CohortDatasets)

SpecCohorts == InitCohorts /\ [][NextCohorts]_vars

\* ------------------------------------------------ growth accounting engine
\* df_users, lines 186-189: every entity crossed with every period from its cohort
\* on, in (entity, period) order, with the number of its events
UsersRows(df) ==
  LET ids == SortedSeq({r.id : r \in df})
      ps == SortedSeq({r.period : r \in df})
      cohortOf(e) == (CHOOSE r \in df : r.id = e).cohort
      all == Flatten([i \in 1..Len(ids) |->
               [j \in 1..Len(ps) |->
                 [id |-> ids[i], cohort_rep |-> cohortOf(ids[i]), period_rep |-> ps[j],
                  freq |-> Cardinality({r \in df : r.id = ids[i] /\ r.period = ps[j]})]]])
      fromCohort(row) == row.period_rep >= row.cohort_rep
  IN  SelectSeq(all, fromCohort)

\* np.where(x>0,1,0) of freq
Uniques(row) == IF row.freq > 0 THEN 1 ELSE 0

\* variant: the first row of an entity gets the change 0
user_change_zero(kept, i) ==
  IF i = 1 \/ kept[i - 1].id # kept[i].id THEN 0
  ELSE Uniques(kept[i]) - Uniques(kept[i - 1])

\* user_change: uniques.diff() inside the entity's group, then fillna(2) on the
\* first row of the group
user_change(kept, i) ==
  IF i = 1 \/ kept[i - 1].id # kept[i].id THEN 2
  ELSE Uniques(kept[i]) - Uniques(kept[i - 1])

\* df_users, lines 190-198: uniques, change and supercolumn of every row
UsersOf(kept) ==
  LET uniques(i) == Uniques(kept[i])
      change(i) == user_change(kept, i)
  IN  Table([i \in 1..Len(kept) |->
        [id |-> kept[i].id, cohort_rep |-> kept[i].cohort_rep,
         period_rep |-> kept[i].period_rep, freq |-> kept[i].freq,
         uniques |-> uniques(i), change |-> change(i),
         supercolumn |-> change(i) + uniques(i)]])

UsersTable(df) == UsersOf(UsersRows(df))

\* df_revenue, lines 200-211, from the events df and df_users
RevenueOf(df, users) ==
  LET \* df.groupby([column_id,'period_rep'])[column_input].sum(), fillna(0)
      revenue(i) ==
        LET cell == {r \in df : r.id = users[i].id /\ r.period = users[i].period_rep}
        IN  FillNa0(IF cell = {} THEN NaN ELSE Num(SumInput(cell)))
      \* revenue.diff() inside the entity's group
      revchange(i) == IF i = 1 \/ users[i - 1].id # users[i].id THEN NaN
                      ELSE Sub(revenue(i), revenue(i - 1))
      revstatus(i) == IF Positive(revchange(i)) THEN 1
                      ELSE IF Negative(revchange(i)) THEN -1 ELSE 0
      retained(i) == Sub(revenue(i),
                         IF Negative(revchange(i)) THEN Num(0) ELSE revchange(i))
  IN  Table([i \in 1..Len(users) |->
        [id |-> users[i].id, cohort_rep |-> users[i].cohort_rep,
         period_rep |-> users[i].period_rep, supercolumn |-> users[i].supercolumn,
         revenue |-> revenue(i), revchange |-> revchange(i),
         revstatus |-> revstatus(i), retained |-> retained(i)]])


\* groupby('period_rep')[field].sum() of the selected rows, looked up at period p:
\* NaN when no selected row has that period
RECURSIVE SumField(_, _, _)
SumField(rows, field, acc) ==
  IF rows = <<>> THEN acc
  ELSE SumField(Tail(rows), field,
                IF IsNaN(Head(rows)[field]) THEN acc ELSE Add(acc, Head(rows)[field]))

PeriodSum(rows, field, p) ==
  LET at(row) == row.period_rep = p
      sel == SelectSeq(rows, at)
  IN  IF sel = <<>> THEN NaN ELSE SumField(sel, field, Num(0))

IsNew(row) == row.supercolumn = 3
\* variant: an entity that comes back is in no class
IsResurrected_none(row) == FALSE
IsResurrected(row) == row.supercolumn = 2
IsExpansion(row) == row.supercolumn = 1 /\ row.revstatus = 1
IsContraction(row) == row.supercolumn = 1 /\ row.revstatus = -1
IsRetained(row) == row.supercolumn = 1
\* variant: the entities inactive in both periods instead of the churned ones
IsChurned_idle(row) == row.supercolumn = 0
IsChurned(row) == row.supercolumn = -1

\* the index of dfgrowth, line 214: df.groupby(['cohort_rep'])
GrowthIndex(df) == SortedSeq({r.cohort : r \in df})

\* lines 218-227: the absolute quantities of every row of dfgrowth, from df_revenue
\* and the index
QuantitiesOf(rev, idx) ==
      Table([i \in 1..Len(idx) |->
        [period_rep |-> idx[i],
         new |-> FillNa0(PeriodSum(SelectSeq(rev, IsNew), "revenue", idx[i])),
         resurrected |-> FillNa0(PeriodSum(SelectSeq(rev, IsResurrected), "revenue", idx[i])),
         expansion |-> FillNa0(PeriodSum(SelectSeq(rev, IsExpansion), "revchange", idx[i])),
         contraction |-> FillNa0(PeriodSum(SelectSeq(rev, IsContraction), "revchange", idx[i])),
         retained |-> FillNa0(PeriodSum(SelectSeq(rev, IsRetained), "retained", idx[i])),
         churned |-> FillNa0(PeriodSum(SelectSeq(rev, IsChurned), "revchange", idx[i])),
         total |-> PeriodSum(rev, "revenue", idx[i])]])

\* column.shift(1) at row i
Shift1(q, i, column) == IF i = 1 THEN NaN ELSE q[i - 1][column]

\* column / column.shift(1) at row i
Rate(q, i, column) == Div(q[i][column], Shift1(q, i, column))

\* lines 232-244: the rates and ratios of row i, then the replacement of the
\* infinities.  (-churned - contraction is the float -0.0 where the model has 0, so
\* an infinity of quick_ratio may have the other sign before it is replaced.)
RatesOf(q, i) ==
  LET r == q[i]
      growth == Sub(Sub(Add(Add(Rate(q, i, "new"), Rate(q, i, "resurrected")),
                            Rate(q, i, "expansion")),
                        Rate(q, i, "contraction")),
                    Rate(q, i, "churned"))
      lost == Sub(Neg(r.churned), r.contraction)
  IN  [new_rate |-> ReplaceInf(Rate(q, i, "new")),
       resurrected_rate |-> ReplaceInf(Rate(q, i, "resurrected")),
       expansion_rate |-> ReplaceInf(Rate(q, i, "expansion")),
       contraction_rate |-> ReplaceInf(Rate(q, i, "contraction")),
       retained_rate |-> ReplaceInf(Rate(q, i, "retained")),
       churned_rate |-> ReplaceInf(Rate(q, i, "churned")),
       growth_rate |-> ReplaceInf(growth),
       gross_retention |-> ReplaceInf(Div(r.retained, Shift1(q, i, "total"))),
       quick_ratio |-> ReplaceInf(Div(Add(Add(r.new, r.resurrected), r.expansion), lost)),
       net_churn |-> ReplaceInf(Div(Sub(Sub(lost, r.resurrected), r.expansion),
                                    Shift1(q, i, "total")))]

QuantityNames == {"total", "new", "resurrected", "expansion", "contraction",
                  "retained", "churned"}
RateNames == {"new_rate", "resurrected_rate", "expansion_rate", "contraction_rate",
              "retained_rate", "churned_rate", "growth_rate", "gross_retention",
              "quick_ratio", "net_churn"}
\* the columns of self.df, lines 270-272: contraction_rate is not among them
DfColumns == (QuantityNames \cup RateNames) \ {"contraction_rate"}

\* dfgrowth after line 244: one row per index value with all 17 columns
GrowthRows(q) ==
      Table([i \in 1..Len(q) |->
        LET r == RatesOf(q, i)
        IN  [period_rep |-> q[i].period_rep,
             cols |-> [total |-> q[i].total, new |-> q[i].new,
                       resurrected |-> q[i].resurrected, expansion |-> q[i].expansion,
                       contraction |-> q[i].contraction, retained |-> q[i].retained,
                       churned |-> q[i].churned, new_rate |-> r.new_rate,
                       resurrected_rate |-> r.resurrected_rate,
                       expansion_rate |-> r.expansion_rate,
                       contraction_rate |-> r.contraction_rate,
                       retained_rate |-> r.retained_rate,
                       churned_rate |-> r.churned_rate, growth_rate |-> r.growth_rate,
                       gross_retention |-> r.gross_retention,
                       quick_ratio |-> r.quick_ratio, net_churn |-> r.net_churn]]])

\* self.df, lines 270-272: 16 of the columns of dfgrowth
SelfDf(g) ==
  Table([i \in 1..Len(g) |->
    LET c == g[i].cols
    IN  [period_rep |-> g[i].period_rep,
         cols |-> [total |-> c.total, new |-> c.new, resurrected |-> c.resurrected,
                   expansion |-> c.expansion, contraction |-> c.contraction,
                   retained |-> c.retained, churned |-> c.churned,
                   new_rate |-> c.new_rate, resurrected_rate |-> c.resurrected_rate,
                   expansion_rate |-> c.expansion_rate, retained_rate |-> c.retained_rate,
                   churned_rate |-> c.churned_rate, growth_rate |-> c.growth_rate,
                   gross_retention |-> c.gross_retention, quick_ratio |-> c.quick_ratio,
                   net_churn |-> c.net_churn]]])

\* np.array(dfgrowth[column])
Column(g, column) == Table([i \in 1..Len(g) |-> g[i].cols[column]])

\* lines 247-268: the flat sequences
FlatOf(tipo, g) ==
  [period_rep_list |-> Table([i \in 1..Len(g) |-> g[i].period_rep]),
   period_list |-> Table([i \in 1..Len(g) |-> custom_period(tipo, g[i].period_rep)]),
   total |-> Column(g, "total"), new |-> Column(g, "new"),
   resurrected |-> Column(g, "resurrected"), expansion |-> Column(g, "expansion"),
   contraction |-> Column(g, "contraction"), retained |-> Column(g, "retained"),
   churned |-> Column(g, "churned"), new_rate |-> Column(g, "new_rate"),
   resurrected_rate |-> Column(g, "resurrected_rate"),
   expansion_rate |-> Column(g, "expansion_rate"),
   contraction_rate |-> Column(g, "contraction_rate"),
   retained_rate |-> Column(g, "retained_rate"),
   churned_rate |-> Column(g, "churned_rate"), growth_rate |-> Column(g, "growth_rate"),
   gross_retention |-> Column(g, "gross_retention"),
   quick_ratio |-> Column(g, "quick_ratio"), net_churn |-> Column(g, "net_churn")]

\* GrowthAccounting.fit(data, column_date, column_id, column_input)
GrowthAccounting_fit(hasInput) ==
  /\ engine = "GrowthAccounting"
  /\ g_calls < MaxCalls
  /\ g_calls' = g_calls + 1
  /\ g_last' = Call("fit", InputArg(hasInput), "")
  /\ g_ret' = None
  /\ UNCHANGED <<engine, data, period, simple, cvars, cal>>
  /\ IF MissingInput(simple, hasInput)
     THEN /\ g_exc' = "ValueError"
          /\ UNCHANGED <<df_prepared, df_users, df_revenue, quantities, dfgrowth,
                         self_df, flat>>
     ELSE /\ df_prepared' = Normalize(data, period, simple)
          /\ df_users' = UsersTable(df_prepared')
          /\ df_revenue' = RevenueOf(df_prepared', df_users')
          /\ quantities' = QuantitiesOf(df_revenue', GrowthIndex(df_prepared'))
          /\ dfgrowth' = GrowthRows(quantities')
          /\ flat' = FlatOf(period, dfgrowth')
          /\ self_df' = SelfDf(dfgrowth')
          /\ g_exc' = "none"

\* str.upper() of a granularity
Upper(tipo) ==
  CASE tipo = "m" -> "M" [] tipo = "q" -> "Q" [] tipo = "d" -> "D"
    [] tipo = "28d" -> "28D" [] tipo = "7d" -> "7D"

\* 'C{}GR{}'.format(self.period, num_periods).upper()
CgrLabel(tipo, num_periods) == "C" \o Upper(tipo) \o "GR" \o ToString(num_periods)

\* column.shift(n) at row i of a table with columns
ShiftN(df, i, column, n) == IF i <= n THEN NaN ELSE df[i - n].cols[column]

\* (self.df['total'] / self.df['total'].shift(n)).apply(lambda x: x**(1/n) - 1)
CompoundColumn(df, n) ==
  Table([i \in 1..Len(df) |->
    CompoundRate(Div(df[i].cols["total"], ShiftN(df, i, "total", n)), n)])

\* the numbers of periods a caller asks a compound growth for
Lookbacks == 0..MaxLookback

\* GrowthAccounting.compound_growth(num_periods); 1/num_periods raises for 0
compound_growth(num_periods) ==
  /\ engine = "GrowthAccounting"
  /\ g_calls < MaxCalls
  /\ g_calls' = g_calls + 1
  /\ g_last' = Call("compound_growth", ToString(num_periods), CgrLabel(period, num_periods))
  /\ UNCHANGED <<engine, data, period, simple, cvars, cal, df_prepared, df_users,
                 df_revenue, quantities, dfgrowth, flat>>
  /\ IF self_df = <<>>
     THEN g_exc' = "AttributeError" /\ g_ret' = None /\ UNCHANGED self_df
     ELSE IF num_periods = 0
     THEN g_exc' = "ZeroDivisionError" /\ g_ret' = None /\ UNCHANGED self_df
     ELSE /\ self_df' = SetColumn(self_df, CgrLabel(period, num_periods),
                                  CompoundColumn(self_df, num_periods))
          /\ g_ret' = [type |-> "ndarray",
                       values |-> Column(self_df', CgrLabel(period, num_periods))]
          /\ g_exc' = "none"

\* GrowthAccounting.plot_compound_growth(num_periods), lines 315-317: the column
\* of compound_growth is added to self.df before the figure is drawn; the call
\* returns nothing
plot_compound_growth(num_periods) ==
  /\ engine = "GrowthAccounting"
  /\ g_calls < MaxCalls
  /\ g_calls' = g_calls + 1
  /\ g_last' = Call("plot_compound_growth", ToString(num_periods), CgrLabel(period, num_periods))
  /\ g_ret' = None
  /\ UNCHANGED <<engine, data, period, simple, cvars, cal, df_prepared, df_users,
                 df_revenue, quantities, dfgrowth, flat>>
  /\ IF self_df = <<>>
     THEN g_exc' = "AttributeError" /\ UNCHANGED self_df
     ELSE IF num_periods = 0
     THEN g_exc' = "ZeroDivisionError" /\ UNCHANGED self_df
     ELSE /\ self_df' = SetColumn(self_df, CgrLabel(period, num_periods),
                                  CompoundColumn(self_df, num_periods))
          /\ g_exc' = "none"

NextGrowth ==
  \/ \E hasInput \in BOOLEAN : GrowthAccounting_fit(hasInput)
  \/ \E num_periods \in Lookbacks : compound_growth(num_periods)
  \/ \E num_periods \in Lookbacks : plot_compound_growth(num_periods)

InitGrowth == InitWith("GrowthAccounting", GrowthDatasets)

SpecGrowth == InitGrowth /\ [][NextGrowth]_vars

\* ------------------------------------------------------ calendar calls
IsDate(d) == Month(d) \in 1..12 /\ Day(d) \in 1..DaysInMonth(Year(d), Month(d))

\* the dates a caller passes: every day from December 2019 to January 2021
CalendarDates == {d \in 20191201..20210131 : IsDate(d)}

\* a caller holding a granularity and a date
InitCalendar ==
  /\ engine = "Calendar"
  /\ cal \in [tipo : Granularities, date : CalendarDates, representative : {0},
               period : {<<>>}, again : {0}]
  /\ data = {} /\ period = cal.tipo /\ simple = TRUE
  /\ df_period_cohort = {} /\ df_cohorts = <<>>
  /\ period_list = <<>> /\ cohort_list = <<>>
  /\ arguments = {} /\ column_id = "unset"
  /\ c_exc = "none" /\ c_calls = 0 /\ c_last = NoCall /\ c_ret = None
  /\ df_prepared = {} /\ df_users = <<>> /\ df_revenue = <<>>
  /\ quantities = <<>> /\ dfgrowth = <<>> /\ self_df = <<>> /\ flat = <<>>
  /\ g_exc = "none" /\ g_calls = 0 /\ g_last = NoCall /\ g_ret = None

\* custom_representative(tipo, date)
call_custom_representative ==
  /\ engine = "Calendar"
  /\ cal.representative = 0
  /\ cal' = [cal EXCEPT !.representative = custom_representative(cal.tipo, cal.date)]
  /\ UNCHANGED <<engine, data, period, simple, cvars, gvars>>

\* custom_period(tipo, date)
call_custom_period ==
  /\ engine = "Calendar"
  /\ cal.period = <<>>
  /\ cal' = [cal EXCEPT !.period = custom_period(cal.tipo, cal.date)]
  /\ UNCHANGED <<engine, data, period, simple, cvars, gvars>>

\* custom_representative(tipo, r) of a representative r a first call returned
call_representative_again ==
  /\ engine = "Calendar"
  /\ cal.representative # 0
  /\ cal.again = 0
  /\ cal' = [cal EXCEPT !.again = custom_representative(cal.tipo, cal.representative)]
  /\ UNCHANGED <<engine, data, period, simple, cvars, gvars>>

NextCalendar ==
  \/ call_custom_representative
  \/ call_custom_period
  \/ call_representative_again

SpecCalendar == InitCalendar /\ [][NextCalendar]_vars

Init == InitCohorts \/ InitGrowth

Next == NextCohorts \/ NextGrowth

Spec == Init /\ [][Next]_vars

\* ============================================================= properties
\* the last call was a fit that returned
AfterFit == engine = "Cohorts" /\ c_last.op = "fit" /\ c_exc = "none"

GridKeys == {<<df_cohorts[i].cohort, df_cohorts[i].period>> : i \in 1..Len(df_cohorts)}
DataCohorts == {r.cohort : r \in df_period_cohort}
DataPeriods == {r.period : r \in df_period_cohort}
ExpectedKeys == {k \in DataCohorts \X DataPeriods : k[2] >= k[1]}

\* C1: after a fit that returned, the grid has exactly one row for every pair
\* (cohort of some entity, period with an event of any entity) with period >=
\* cohort and no other row; so between two periods of a cohort every period of
\* the dataset is a row of the cohort too
C1_GridExact ==
  AfterFit =>
    /\ GridKeys = ExpectedKeys
    /\ Len(df_cohorts) = Cardinality(ExpectedKeys)
    /\ \A i \in 1..Len(df_cohorts) : df_cohorts[i].period >= df_cohorts[i].cohort
    /\ \A i, j \in 1..Len(df_cohorts) : \A p \in DataPeriods :
         (/\ df_cohorts[i].cohort = df_cohorts[j].cohort
          /\ df_cohorts[i].period < p /\ p < df_cohorts[j].period)
           => <<df_cohorts[i].cohort, p>> \in GridKeys

\* a cohort of three periods whose middle cell has no event, next to a later cohort
C1_Witness ==
  /\ AfterFit
  /\ Cardinality(DataCohorts) >= 2
  /\ \E i \in 1..Len(df_cohorts) :
       /\ df_cohorts[i].period_num = Num(1)
       /\ Cell(df_period_cohort, df_cohorts[i]) = {}
       /\ \E j \in 1..Len(df_cohorts) :
            df_cohorts[j].cohort = df_cohorts[i].cohort /\ df_cohorts[j].period_num = Num(2)

\* the normalized event rows of the instance, of whichever engine it is
EventRows == IF engine = "Cohorts" THEN df_period_cohort ELSE df_prepared

FirstPeriod(e) ==
  MinOf({custom_representative(period, x.date) : x \in {y \in data : y.id = e}})

CohortsAssigned(rows) ==
  /\ \A r \in rows : r.cohort = FirstPeriod(r.id) /\ r.cohort <= r.period
  /\ \A r1, r2 \in rows : r1.id = r2.id => r1.cohort = r2.cohort
  /\ {r.id : r \in rows} = {e.id : e \in data}

\* C2: in both engines every step leaves every normalized event row of a fitted
\* instance with the cohort of its entity, the least period of the entity's events, so one cohort
\* per entity and cohort <= period; and a fit of a fitted instance gives every
\* entity the cohort it had
C2_CohortIsFirstPeriod ==
  [][ /\ EventRows' # {} => CohortsAssigned(EventRows')
      /\ \A r \in EventRows, r2 \in EventRows' : r.id = r2.id => r.cohort = r2.cohort
    ]_vars

\* a second fit of a Cohorts instance, after apply_personalized had added a label
\* to the grid of the first, with an entity that has events in two periods
C2_Witness ==
  /\ AfterFit
  /\ "orders" \in arguments /\ "orders" \notin Columns(df_cohorts)
  /\ \E r \in df_period_cohort : r.cohort < r.period

\* --- reference aggregation of the growth-accounting categories
RefPeriods == SortedSeq({r.period : r \in df_prepared})
RefIds == {r.id : r \in df_prepared}
RefRevenue(e, p) == SumInput({r \in df_prepared : r.id = e /\ r.period = p})
RefActive(e, p) == \E r \in df_prepared : r.id = e /\ r.period = p
RefFirst(e) == MinOf({r.period : r \in {q \in df_prepared : q.id = e}})
\* the period before p in the period sequence of the dataset (0 if p is the first)
RefPrev(p) ==
  LET before == {q \in Range(RefPeriods) : q < p}
  IN  IF before = {} THEN 0 ELSE CHOOSE q \in before : \A x \in before : x <= q
RefDelta(e, p) == RefRevenue(e, p) - RefRevenue(e, RefPrev(p))
\* 3 new, 2 resurrected, 1 active in both periods, -1 churned, 0 inactive in both;
\* 9 before the entity's first period
RefCode(e, p) ==
  IF p < RefFirst(e) THEN 9
  ELSE IF p = RefFirst(e) THEN 3
  ELSE IF RefActive(e, p) THEN (IF RefActive(e, RefPrev(p)) THEN 1 ELSE 2)
  ELSE IF RefActive(e, RefPrev(p)) THEN -1 ELSE 0

\* the sum of f over a finite set
RefSum(S, f(_)) ==
  LET RECURSIVE Go(_)
      Go(T) == IF T = {} THEN 0
               ELSE LET x == CHOOSE y \in T : TRUE IN f(x) + Go(T \ {x})
  IN  Go(S)

RefCategory(p) ==
  LET rev(e) == RefRevenue(e, p)
      delta(e) == RefDelta(e, p)
      kept(e) == rev(e) - (IF delta(e) > 0 THEN delta(e) ELSE 0)
      code(c) == {e \in RefIds : RefCode(e, p) = c}
  IN  [new |-> RefSum(code(3), rev),
       resurrected |-> RefSum(code(2), rev),
       expansion |-> RefSum({e \in code(1) : delta(e) > 0}, delta),
       contraction |-> RefSum({e \in code(1) : delta(e) < 0}, delta),
       retained |-> RefSum(code(1), kept),
       churned |-> RefSum(code(-1), delta),
       total |-> RefSum(RefIds, rev)]

Fitted == engine = "GrowthAccounting" /\ self_df # <<>>

RowOf(p) == CHOOSE i \in 1..Len(self_df) : self_df[i].period_rep = p

\* C3: every row of the growth-accounting table holds, for its period, the
\* reference sums of new, resurrected, expansion, contraction, retained, churned
\* and total over the entities (0 for a category without entities); in the
\* scenario of three entities the row of the second month has new 1, resurrected
\* 0, retained 1, churned -1, and the totals of the first two months are 2
C3_Categories ==
  Fitted =>
    /\ \A i \in 1..Len(self_df) :
         LET ref == RefCategory(self_df[i].period_rep)
         IN  \A c \in QuantityNames : self_df[i].cols[c] = Num(ref[c])
    /\ (data = Scenario /\ period = "m" /\ simple) =>
         /\ {20200101, 20200201} \subseteq {self_df[i].period_rep : i \in 1..Len(self_df)}
         /\ self_df[RowOf(20200101)].cols["total"] = Num(2)
         /\ LET c == self_df[RowOf(20200201)].cols
            IN  /\ c["new"] = Num(1) /\ c["resurrected"] = Num(0)
                /\ c["retained"] = Num(1) /\ c["churned"] = Num(-1)
                /\ c["total"] = Num(2)

\* a row that has an entity of every class: one that starts, one that comes
\* back, one that grows, one that shrinks and one that leaves
C3_Witness ==
  /\ Fitted
  /\ \E i \in 2..Len(self_df) :
       LET c == self_df[i].cols
       IN  /\ Positive(c["new"]) /\ Positive(c["resurrected"])
           /\ Positive(c["expansion"]) /\ Negative(c["contraction"])
           /\ Positive(c["retained"]) /\ Negative(c["churned"])
           /\ \E e \in RefIds : RefCode(e, self_df[i].period_rep) = 2

\* C4: in every row of the growth-accounting table new + resurrected + expansion
\* + retained is the total
C4_Reconciliation ==
  Fitted =>
    \A i \in 1..Len(self_df) :
      LET c == self_df[i].cols
      IN  Add(Add(Add(c["new"], c["resurrected"]), c["expansion"]), c["retained"])
            = c["total"]

\* a row with the four addends all nonzero, whose total is more than any three
\* of them
C4_Witness ==
  /\ Fitted
  /\ \E i \in 1..Len(self_df) :
       LET c == self_df[i].cols
       IN  /\ Positive(c["new"]) /\ Positive(c["resurrected"])
           /\ Positive(c["expansion"]) /\ Positive(c["retained"])
           /\ c["total"] = Add(Add(Add(c["new"], c["resurrected"]), c["expansion"]),
                               c["retained"])

TablePeriods == [i \in 1..Len(self_df) |-> self_df[i].period_rep]

\* C5: the growth-accounting table has one row for every period in which any
\* entity has an event, in ascending order, and period_rep_list, period_list and
\* every flat sequence have the length and the order of that period sequence
C5_RowPerPeriod ==
  Fitted =>
    /\ TablePeriods = RefPeriods
    /\ flat.period_rep_list = RefPeriods
    /\ flat.period_list = [i \in 1..Len(RefPeriods) |-> custom_period(period, RefPeriods[i])]
    /\ \A c \in QuantityNames \cup RateNames : Len(flat[c]) = Len(RefPeriods)

ZeroOrMissing(v) == IsNaN(v) \/ v = Num(0)

\* the value of a flat sequence in the row before row i
Previous(c, i) == IF i = 1 THEN NaN ELSE flat[c][i - 1]

RateOf == {<<"new_rate", "new">>, <<"resurrected_rate", "resurrected">>,
           <<"expansion_rate", "expansion">>, <<"contraction_rate", "contraction">>,
           <<"retained_rate", "retained">>, <<"churned_rate", "churned">>}

\* C6: a rate or ratio of the growth-accounting table whose denominator is zero
\* or belongs to a missing previous row is NaN, and none is an infinity; every
\* rate and ratio of the first row is NaN; growth_rate is NaN whenever one of
\* the five rates it adds up is NaN
C6_MissingMarker ==
  Fitted =>
    /\ \A i \in 1..Len(flat.total) :
         /\ \A r \in RateOf : ZeroOrMissing(Previous(r[2], i)) => IsNaN(flat[r[1]][i])
         /\ ZeroOrMissing(Previous("total", i)) =>
              IsNaN(flat.gross_retention[i]) /\ IsNaN(flat.net_churn[i])
         /\ ZeroOrMissing(Sub(Neg(flat.churned[i]), flat.contraction[i])) =>
              IsNaN(flat.quick_ratio[i])
         /\ (\E c \in {"new_rate", "resurrected_rate", "expansion_rate",
                       "contraction_rate", "churned_rate"} : IsNaN(flat[c][i]))
              => IsNaN(flat.growth_rate[i])
         /\ \A c \in RateNames : ~IsInf(flat[c][i]) /\ (i = 1 => IsNaN(flat[c][i]))
    /\ \A i \in 1..Len(self_df) : \A c \in DfColumns : self_df[i].cols[c] = flat[c][i]

\* a second row with an expansion after a row without one, and a numeric rate
C6_Witness ==
  /\ Fitted
  /\ \E i \in 2..Len(flat.total) :
       /\ flat.expansion[i - 1] = Num(0) /\ Positive(flat.expansion[i])
       /\ IsNaN(flat.expansion_rate[i])
       /\ IsNum(flat.new_rate[i])

\* the columns a dependent metric call needs and the metric column it adds
Needs(op) ==
  CASE op = "apply_churn_total" -> {"total"}
    [] op = "apply_accum" -> {"total"}
    [] op = "apply_churn_unique_users" -> {"unique_users"}
    [] op = "apply_per_user" -> {"total", "unique_users"}

Adds(op) ==
  CASE op = "apply_churn_total" -> "churn_total"
    [] op = "apply_accum" -> "accum"
    [] op = "apply_churn_unique_users" -> "churn_unique"
    [] op = "apply_per_user" -> "per_user"

DependentOps == {"apply_churn_total", "apply_accum", "apply_churn_unique_users",
                 "apply_per_user"}

\* C7: a dependent metric called right after a fit that returned, with a
\* prerequisite column absent, returns without error and leaves the grid with
\* the prerequisite columns and the metric column
C7_PrerequisiteFirst ==
  [][ (/\ AfterFit
       /\ c_last'.op \in DependentOps
       /\ Needs(c_last'.op) \ Columns(df_cohorts) # {})
      => /\ c_exc' = "none"
         /\ Needs(c_last'.op) \cup {Adds(c_last'.op)} \subseteq Columns(df_cohorts')
    ]_vars

\* perc column, metric column, column of the baseline
PercOf ==
  {<<"perc_total", "total", "total">>,
   <<"perc_unique_users", "unique_users", "unique_users">>,
   <<"perc_churn_total", "churn_total", "total">>,
   <<"perc_churn_unique", "churn_unique", "unique_users">>,
   <<"perc_accum", "accum", "total">>,
   <<"perc_per_user", "per_user", "per_user">>}
    \cup {<<PercName(l), l, l>> : l \in Labels}

\* the period-0 row of the cohort of row i
PeriodZero(i) ==
  CHOOSE j \in 1..Len(df_cohorts) :
    df_cohorts[j].cohort = df_cohorts[i].cohort /\ df_cohorts[j].period_num = Num(0)

\* perc column q of row i is column m of the row over column b of the period-0
\* row of its cohort: 1 (m = b) or m over b at period 0 when that baseline is a
\* nonzero number, NaN at period 0 when the baseline is 0 or missing
PercIs(q, m, b) ==
  \A i \in 1..Len(df_cohorts) :
    LET base == df_cohorts[PeriodZero(i)].cols[b]
        v == df_cohorts[i].cols[q]
    IN  /\ v = Div(df_cohorts[i].cols[m], base)
        /\ df_cohorts[i].period_num = Num(0) =>
             /\ (IsNum(base) /\ base # Num(0) /\ m = b) => v = Num(1)
             /\ ZeroOrMissing(base) => IsNaN(v)

\* C8 (amended): every perc column of the grid is its metric divided by a
\* baseline at the cohort's period-0 row: the metric itself for total,
\* unique_users, per_user and a personalized label, total for churn_total and
\* accum, unique_users for churn_unique; at period 0 it is 1 for the first four
\* when the baseline is a nonzero number, and NaN when the baseline is 0
C8_PercOfBaseline ==
  (engine = "Cohorts" /\ HasGrid) =>
    \A t \in PercOf : t[1] \in Columns(df_cohorts) => PercIs(t[1], t[2], t[3])

\* C8 as stated: every perc column is its metric divided by the same metric at
\* the cohort's period-0 row
C8_PercOfOwnMetric ==
  (engine = "Cohorts" /\ HasGrid) =>
    \A t \in PercOf : t[1] \in Columns(df_cohorts) => PercIs(t[1], t[2], t[2])

\* a grid with churn_total where a cohort has lost its period-0 total by its
\* second period: perc_total 1 and perc_churn_total 0 at period 0
C8_Witness ==
  /\ engine = "Cohorts" /\ HasGrid
  /\ {"perc_total", "perc_churn_total"} \subseteq Columns(df_cohorts)
  /\ \E i \in 1..Len(df_cohorts) :
       /\ df_cohorts[i].period_num = Num(1)
       /\ Positive(df_cohorts[i].cols["perc_churn_total"])
       /\ df_cohorts[PeriodZero(i)].cols["perc_total"] = Num(1)
       /\ df_cohorts[PeriodZero(i)].cols["perc_churn_total"] = Num(0)

\* C9: where total or unique_users is a column of the grid, it is 0 in every
\* cell (period >= cohort) in which the cohort has no event
C9_ZeroFilled ==
  (engine = "Cohorts" /\ HasGrid) =>
    \A i \in 1..Len(df_cohorts) : \A c \in {"total", "unique_users"} :
      (/\ c \in Columns(df_cohorts)
       /\ df_cohorts[i].period >= df_cohorts[i].cohort
       /\ Cell(df_period_cohort, df_cohorts[i]) = {})
        => df_cohorts[i].cols[c] = Num(0)

MetricOps == {"apply_total", "apply_unique_users", "apply_churn_total",
              "apply_churn_unique_users", "apply_accum", "apply_per_user",
              "apply_personalized"}

\* C10: a metric call that returned, made again with the same arguments,
\* returns and leaves the grid as it was
C10_Idempotent ==
  [][ (c_last.op \in MetricOps /\ c_exc = "none" /\ c_last' = c_last)
      => (c_exc' = "none" /\ df_cohorts' = df_cohorts)
    ]_vars

\* the grid after the metric calls of a sequence, made one after the other on
\* grid df: a call that raises leaves the grid as it was
RECURSIVE AfterCalls(_, _, _)
AfterCalls(ops, dfpc, df) ==
  IF ops = <<>> THEN df
  ELSE AfterCalls(Tail(ops), dfpc, ApplyItem(Head(ops), dfpc, df).df)

MetricNames == {"total", "churn_total", "accum", "unique_users", "churn_unique_users",
                "per_user"}

\* the metrics a metric computes when they are absent
Prerequisites(item) ==
  CASE item = "churn_total" -> {"total"}
    [] item = "accum" -> {"total"}
    [] item = "churn_unique_users" -> {"unique_users"}
    [] item = "per_user" -> {"total", "unique_users"}
    [] OTHER -> {}

\* two metrics give the same grid in either order: called one after the other
\* on the fitted grid, listed in fit's how, and with a prerequisite called first
\* or left to the dependent metric
CommuteOn(names) ==
  \A a, b \in names :
    /\ AfterCalls(<<a, b>>, df_period_cohort, df_cohorts)
         = AfterCalls(<<b, a>>, df_period_cohort, df_cohorts)
    /\ RunHow(<<a, b>>, df_period_cohort, BaseGrid(df_period_cohort))
         = RunHow(<<b, a>>, df_period_cohort, BaseGrid(df_period_cohort))
    /\ a \in Prerequisites(b) =>
         AfterCalls(<<a, b>>, df_period_cohort, df_cohorts)
           = AfterCalls(<<b>>, df_period_cohort, df_cohorts)

\* C11: after a fit that returned, any two metrics invoked in either order, or
\* listed in either order in how, or with the prerequisite obtained directly or
\* through the dependent metric, leave every metric column and every percentage
\* column of every grid cell with the same value
C11_Commute == AfterFit => CommuteOn(MetricNames)

ReadOps == {"transform_pd", "transform_np"}

\* no fit of the instance has returned: fit sets column_id as its last statement
\* but one, and GrowthAccounting.fit sets self.df as its last
NeverFitted ==
  IF engine = "Cohorts" THEN column_id = "unset" ELSE self_df = <<>>

\* C12: on an instance no fit of which has returned (never fitted, or every fit
\* raised, an unrecognized name in how included), every metric call, transform
\* call and compound_growth call raises, adds no column and returns nothing
C12_NotFitted ==
  [][ /\ (engine = "Cohorts" /\ NeverFitted /\ c_last'.op \in MetricOps \cup ReadOps)
          => /\ c_exc' # "none"
             /\ Columns(df_cohorts') = Columns(df_cohorts)
             /\ c_ret' = None
      /\ (engine = "GrowthAccounting" /\ NeverFitted /\ g_last'.op = "compound_growth")
          => /\ g_exc' # "none"
             /\ self_df' = self_df
             /\ g_ret' = None
    ]_vars

\* C13: in both engines a fit of an instance with simple = FALSE, called
\* without a quantity column, raises ValueError and changes nothing: the
\* normalized table, the grid, the lists, arguments and the growth table and its
\* flat sequences are what they were, unset or the result of an earlier fit
C13_ConfigError ==
  [][ /\ (engine = "Cohorts" /\ ~simple /\ c_calls' # c_calls
           /\ c_last' = Call("fit", InputArg(FALSE), ""))
          => /\ c_exc' = "ValueError"
             /\ UNCHANGED <<df_period_cohort, df_cohorts, period_list, cohort_list,
                            arguments, column_id>>
      /\ (engine = "GrowthAccounting" /\ ~simple /\ g_calls' # g_calls
           /\ g_last' = Call("fit", InputArg(FALSE), ""))
          => /\ g_exc' = "ValueError"
             /\ UNCHANGED <<df_prepared, df_users, df_revenue, quantities, dfgrowth,
                            self_df, flat>>
    ]_vars

\* a fit without quantity column that raised on an instance whose earlier fit
\* had returned with the total metric
C13_Witness ==
  /\ engine = "Cohorts" /\ ~simple
  /\ c_last = Call("fit", InputArg(FALSE), "") /\ c_exc = "ValueError"
  /\ column_id = "set" /\ "total" \in arguments
  /\ {"total", "perc_total"} \subseteq Columns(df_cohorts)

\* C14: for every granularity and every date, the representative of the
\* representative of the date is the representative of the date
C14_Idempotent ==
  (engine = "Calendar" /\ cal.again # 0) => cal.again = cal.representative

\* a 28-day call whose representative lies in the calendar year before the
\* date, applied again
C14_Witness ==
  /\ engine = "Calendar" /\ cal.tipo = "28d" /\ cal.again # 0
  /\ Year(cal.representative) < Year(cal.date)

\* the first month of the calendar quarter of a month
QuarterMonth(m) ==
  IF m <= 3 THEN 1 ELSE IF m <= 6 THEN 4 ELSE IF m <= 9 THEN 7 ELSE 10

\* C15: the quarterly representative of a date is the first day of the calendar
\* quarter of the date: day 1 of month 1, 4, 7 or 10 of the year of the date
C15_QuarterStart ==
  (engine = "Calendar" /\ cal.tipo = "q" /\ cal.representative # 0)
    => cal.representative = MkDate(Year(cal.date), QuarterMonth(Month(cal.date)), 1)

\* the 28-day representative of the date of the call is the Monday of ISO week
\* `week` of the ISO year of the date
AnchoredAt(week) ==
  IsoCalendar(cal.representative) = <<IsoCalendar(cal.date)[1], week, 1>>

RepresentativeOf28d == engine = "Calendar" /\ cal.tipo = "28d" /\ cal.representative # 0

\* C16 (amended): the 28-day representative of a date in ISO week w of ISO
\* year y is the Monday of ISO week (w div 4) * 4 of y when w >= 4, and the
\* Monday of ISO week 1 of y when w is 1, 2 or 3
C16_Anchor ==
  RepresentativeOf28d =>
    LET w == IsoCalendar(cal.date)[2]
    IN  AnchoredAt(IF w >= 4 THEN (w \div 4) * 4 ELSE 1)

\* C16 as stated: the representative is the Monday of ISO week quad * 4, quad
\* being w div 4, or 1 when that is 0
C16_QuadAnchor ==
  RepresentativeOf28d =>
    LET w == IsoCalendar(cal.date)[2]
    IN  AnchoredAt((IF w \div 4 # 0 THEN w \div 4 ELSE 1) * 4)

\* a date in ISO week 2 or 3, whose representative is in ISO week 1
C16_Witness ==
  /\ RepresentativeOf28d
  /\ IsoCalendar(cal.date)[2] \in {2, 3}
  /\ IsoCalendar(cal.representative)[2] = 1

\* the label and the representative of the date of the call agree with those of
\* every date d2 on whether the two dates are in the same bucket
SameBucket ==
  \A d2 \in CalendarDates :
    (custom_period(cal.tipo, d2) = cal.period)
      <=> (custom_representative(cal.tipo, d2) = cal.representative)

\* C17: for every granularity, two dates have the same label if and only if
\* they have the same representative
C17_LabelIsBucket ==
  (engine = "Calendar" /\ cal.representative # 0 /\ cal.period # <<>>) => SameBucket

\* the grid rows of a cohort
RowsOf(c) == {i \in 1..Len(df_cohorts) : df_cohorts[i].cohort = c}

\* C18: after a fit that returned, every cohort of the data has rows; the
\* period_num of a row is the number of rows of its cohort with an earlier
\* period, so the values of a cohort are 0, 1, ..., k-1 in ascending period
\* order; the row with period_num 0 is the row whose period is the cohort; and a
\* cohort with one period of the dataset at or after it has one row, period_num 0
C18_PeriodNum ==
  AfterFit =>
    \A c \in DataCohorts :
      /\ RowsOf(c) # {}
      /\ \A i \in RowsOf(c) :
           /\ df_cohorts[i].period_num
                = Num(Cardinality({j \in RowsOf(c) : df_cohorts[j].period < df_cohorts[i].period}))
           /\ (df_cohorts[i].period_num = Num(0)) <=> (df_cohorts[i].period = c)
      /\ {df_cohorts[i].period_num : i \in RowsOf(c)}
           = {Num(n) : n \in 0..(Cardinality(RowsOf(c)) - 1)}
      /\ Cardinality({p \in DataPeriods : p >= c}) = 1 =>
           /\ Cardinality(RowsOf(c)) = 1
           /\ \A i \in RowsOf(c) : df_cohorts[i].period_num = Num(0)

\* a cohort of three periods and the cohort of the last period, of one row
C18_Witness ==
  /\ AfterFit
  /\ \E c1, c2 \in DataCohorts :
       /\ Cardinality(RowsOf(c1)) = 3
       /\ Cardinality(RowsOf(c2)) = 1
       /\ \A p \in DataPeriods : p <= c2

\* cell g is the number with (1 + g)^n = ratio, for a ratio that is a number
IsCompoundOf(g, n, ratio) ==
  IF IsNum(g)
  THEN LET b == Add(g, Num(1)) IN b.n >= 0 /\ Frac(Pow(b.n, n), Pow(b.d, n)) = ratio
  ELSE g.k = "root" \o ToString(n) /\ Frac(g.n, g.d) = ratio /\ ratio.n > 0

\* C19: a compound_growth(n) call that returns leaves the table with the
\* columns it had and the column of the call; no other column and no row
\* changes; the column is the missing marker NaN in the first n rows and in
\* every later row i it is the g with (1 + g)^n = total[i] / total[i-n], or the
\* missing marker where total[i-n] is zero and the ratio has no value; for the
\* totals 100, 110, 121 and n = 2 the third row holds 1/10; and when the column
\* was there already, from a call with the same n, the table is left as it was
C19_CompoundGrowth ==
  [][ (/\ engine = "GrowthAccounting" /\ g_calls' # g_calls
       /\ g_last'.op = "compound_growth" /\ g_exc' = "none")
      => LET n == CHOOSE k \in Lookbacks : ToString(k) = g_last'.kind
             label == g_last'.label
         IN  /\ n >= 1
             /\ Len(self_df') = Len(self_df)
             /\ Columns(self_df') = Columns(self_df) \cup {label}
             /\ g_ret'.values = [i \in 1..Len(self_df) |-> self_df'[i].cols[label]]
             /\ \A i \in 1..Len(self_df) :
                  /\ self_df'[i].period_rep = self_df[i].period_rep
                  /\ \A c \in Columns(self_df) \ {label} :
                       self_df'[i].cols[c] = self_df[i].cols[c]
                  /\ i <= n => IsNaN(self_df'[i].cols[label])
                  /\ i > n =>
                       IF self_df[i - n].cols["total"] = Num(0)
                       THEN IsNaN(self_df'[i].cols[label])
                       ELSE IsCompoundOf(self_df'[i].cols[label], n,
                                         Div(self_df[i].cols["total"],
                                             self_df[i - n].cols["total"]))
             /\ label \in Columns(self_df) => self_df' = self_df
             /\ (n = 2 /\ Len(self_df) = 3
                 /\ [i \in 1..3 |-> self_df[i].cols["total"]] = <<Num(100), Num(110), Num(121)>>)
                  => self_df'[3].cols[label] = Frac(1, 10)
    ]_vars

\* the columns of the grid that are not percentage columns
MetricColumns == Columns(df_cohorts) \ {t[1] : t \in PercOf}

\* C20: on a Cohorts instance every name in arguments is a column of the grid
\* and so is its percentage sibling, and every metric column of the grid is a
\* name in arguments
C20_ArgumentsAreColumns ==
  engine = "Cohorts" =>
    /\ \A a \in arguments : {a, PercName(a)} \subseteq Columns(df_cohorts)
    /\ MetricColumns \subseteq arguments

\* the rows of df_users of an entity
UserRows(e) == {i \in 1..Len(df_users) : df_users[i].id = e}

\* the row of df_users of entity e at period p
UserRow(e, p) ==
  CHOOSE i \in UserRows(e) : df_users[i].period_rep = p

ActiveCodes == {3, 2, 1}

\* C21: after GrowthAccounting.fit every entity has exactly one observation for
\* every period of the dataset from its cohort period on and none before; the
\* observation at the cohort period has code 3 and no other has; an
\* observation after an active one (code 3, 2 or 1) has code 1 if the entity is
\* active and -1 if not, and one after an inactive one (code -1 or 0) has code
\* 2 if the entity is active and 0 if not
C21_LifeCycle ==
  (engine = "GrowthAccounting" /\ df_users # <<>>) =>
    /\ {df_users[i].id : i \in 1..Len(df_users)} = RefIds
    /\ \A e \in RefIds :
         /\ {df_users[i].period_rep : i \in UserRows(e)}
              = {p \in Range(RefPeriods) : p >= RefFirst(e)}
         /\ Cardinality(UserRows(e))
              = Cardinality({p \in Range(RefPeriods) : p >= RefFirst(e)})
         /\ \A i \in UserRows(e) :
              LET p == df_users[i].period_rep
                  code == df_users[i].supercolumn
              IN  /\ code \in {3, 2, 1, -1, 0}
                  /\ (code = 3) <=> (p = RefFirst(e))
                  /\ p > RefFirst(e) =>
                       LET before == df_users[UserRow(e, RefPrev(p))].supercolumn
                       IN  code = IF before \in ActiveCodes
                                  THEN (IF RefActive(e, p) THEN 1 ELSE -1)
                                  ELSE (IF RefActive(e, p) THEN 2 ELSE 0)

\* an entity that is new, then churned, then resurrected, next to an entity
\* that starts later
C21_Witness ==
  /\ engine = "GrowthAccounting" /\ df_users # <<>>
  /\ Cardinality(RefIds) >= 2
  /\ \E i \in 1..(Len(df_users) - 2) :
       /\ df_users[i].id = df_users[i + 2].id
       /\ <<df_users[i].supercolumn, df_users[i + 1].supercolumn,
            df_users[i + 2].supercolumn>> = <<3, -1, 2>>

\* the (cohort, period, period_num) rows of a grid
GridRows(df) == {<<df[i].cohort, df[i].period, df[i].period_num>> : i \in 1..Len(df)}

\* C22: a metric call (apply_total, apply_unique_users, apply_churn_total,
\* apply_churn_unique_users, apply_accum, apply_per_user, apply_personalized
\* with any supplied table) on a fitted instance leaves the (cohort, period,
\* period_num) rows of the grid as they were, one row each, and every row
\* still has cohort <= period and a defined period_num
C22_RowsKept ==
  [][ (engine = "Cohorts" /\ HasGrid /\ c_last'.op \in MetricOps)
      => /\ GridRows(df_cohorts') = GridRows(df_cohorts)
         /\ Len(df_cohorts') = Len(df_cohorts)
         /\ \A i \in 1..Len(df_cohorts') :
              /\ df_cohorts'[i].cohort <= df_cohorts'[i].period
              /\ IsNum(df_cohorts'[i].period_num)
    ]_vars

\* C23: the quantities of the datasets are non-negative; in every row of the
\* growth-accounting table after the first, retained - churned - contraction is
\* the total of the row before, and gross_retention, where it is a number, is
\* between 0 and 1 inclusive
C23_PreviousTotal ==
  Fitted =>
    \A i \in 2..Len(self_df) :
      LET c == self_df[i].cols
          g == c["gross_retention"]
      IN  /\ Sub(Sub(c["retained"], c["churned"]), c["contraction"])
               = self_df[i - 1].cols["total"]
          /\ IsNum(g) => (g.n * g.d >= 0 /\ Abs(g.n) <= Abs(g.d))

====
